---- MODULE Spec2Model ----
(***************************************************************************)
(* Model of mem0/vector_stores/pgvector.py: the PGVector adapter, its      *)
(* scoped cursor acquisition (_get_cursor) over the psycopg2 and psycopg3  *)
(* pools, and the public operations built on it.  One caller thread runs   *)
(* one public operation at a time; every driver call of _get_cursor is a   *)
(* step of its own and may fail.                                           *)
(***************************************************************************)
EXTENDS Integers, Sequences, FiniteSets, TLC

\* ---------------------------------------------------------------- bounds
\* Pool maximum (maxconn of the constructor).
MaxConn == 2
\* Longest insert batch.
MaxBatch == 2

\* ------------------------------------------------------- program constants
\* pgvector.py:130  "self.embedding_model_dims < 2000"
DimLimit == 2000

\* ------------------------------------------------------------ value sets
Ids == {"a", "b"}
\* non-empty vectors and non-empty payload mappings
Vectors == {"v1", "v2"}
Payloads == {"p1", "p2"}
None == "None"
EmptyVector == "[]"
EmptyPayload == "{}"
EmptyFilter == "{}"
\* a filter {"type": x}; payload p1 has type "x", p2 has type "y"
FilterValues == {"x", "y"}
Limits == {1, 10}
Dims == {DimLimit - 1, DimLimit}
Versions == {2, 3}
IndexKinds == {"diskann", "hnsw"}
collection_name == "mem0"

NoExc == "none"

\* Python truthiness of an optional list / dict argument (None, [] and {} are falsy)
Truthy(x) == x \notin {None, EmptyVector, EmptyPayload}

VARIABLES
    PSYCOPG_VERSION,        \* 2 or 3, fixed at import
    use_diskann, use_hnsw, embedding_model_dims,
    vectorscale,            \* backend: the vectorscale extension is installed
    db,                     \* committed database state
    txn,                    \* state seen by the borrowed connection's transaction
    pc,                     \* position of the caller
    op,                     \* the public operation in progress and its arguments
    seg,                    \* the scoped block of the operation that is running
    exc,                    \* the exception in flight
    blockExc,               \* the exception the with-block raised, if any
    ret,                    \* value returned by the block / the operation
    held,                   \* connections the running operation has borrowed and not put back
    used,                   \* connections out of the pool
    nstmts, ncommits, nrollbacks,  \* statements / commits / rollbacks issued by the operation
    pre                     \* committed state when the operation was called

cfg == <<PSYCOPG_VERSION, use_diskann, use_hnsw, embedding_model_dims, vectorscale>>
vars == <<PSYCOPG_VERSION, use_diskann, use_hnsw, embedding_model_dims, vectorscale,
          db, txn, pc, op, seg, exc, blockExc, ret, held, used,
          nstmts, ncommits, nrollbacks, pre>>

\* ------------------------------------------------------------ python values
NoneValue == [type |-> "None"]
PyList(items) == [type |-> "list", items |-> items]
OutputData(id, score, payload) == [type |-> "OutputData", id |-> id, score |-> score, payload |-> payload]

Range(s) == {s[i] : i \in DOMAIN s}
Min(a, b) == IF a < b THEN a ELSE b

\* json.dumps(payload) on the way in, the jsonb loader on the way out
json_dumps(p) == <<"json", p>>
jsonb_load(j) == j[2]

\* ------------------------------------------------------------ the database
EmptyRows == [i \in {} |-> NoneValue]
NoTable == [exists |-> FALSE, indexes |-> {}, rows |-> EmptyRows]
Row(v, p) == [vector |-> v, payload |-> p]

\* payload->>'type'
PayloadType(j) == IF jsonb_load(j) = "p1" THEN "x" ELSE IF jsonb_load(j) = "p2" THEN "y" ELSE None

\* outcome of a with-block: the exception it raised, the transaction state it
\* leaves, its value and the number of statements it issued
Outcome(e, t, r, n) == [exc |-> e, txn |-> t, ret |-> r, n |-> n]


\* ------------------------------------------------------------ with-blocks
\* create_col, lines 130-148: the index the configured strategy creates
SelectedIndex(diskann, hnsw, dims, ext) ==
    IF diskann /\ dims < DimLimit
    THEN (IF ext THEN {"diskann"} ELSE {})
    ELSE IF hnsw THEN {"hnsw"} ELSE {}

\* statements issued by create_col's block
CreateColStatements(diskann, hnsw, dims, ext) ==
    IF diskann /\ dims < DimLimit
    THEN (IF ext THEN 4 ELSE 3)
    ELSE IF hnsw THEN 3 ELSE 2

\* create_col, lines 119-148: CREATE EXTENSION / TABLE / INDEX, all IF NOT EXISTS
create_col_block(t) ==
    Outcome(NoExc,
            [exists |-> TRUE,
             indexes |-> t.indexes \cup SelectedIndex(use_diskann, use_hnsw, embedding_model_dims, vectorscale),
             rows |-> t.rows],
            NoneValue,
            CreateColStatements(use_diskann, use_hnsw, embedding_model_dims, vectorscale))

\* insert, lines 152-154: data = zip(ids, vectors, json payloads)
InsertData(ids, vectors, payloads) ==
    [i \in 1..Min(Len(ids), Min(Len(vectors), Len(payloads))) |->
        <<ids[i], vectors[i], json_dumps(payloads[i])>>]

\* the first row of data whose id is already stored or repeats an earlier row (0: none)
FirstConflict(rows, data) ==
    LET bad == {k \in DOMAIN data :
                   \/ data[k][1] \in DOMAIN rows
                   \/ \E j \in 1..(k - 1) : data[j][1] = data[k][1]}
    IN IF bad = {} THEN 0 ELSE CHOOSE k \in bad : \A j \in bad : k <= j

\* the table after the first n rows of data were written
WithRows(t, data, n) ==
    LET new == {data[k][1] : k \in 1..n}
    IN [t EXCEPT !.rows =
            [i \in DOMAIN t.rows \cup new |->
                IF i \in new
                THEN LET k == CHOOSE k \in 1..n : data[k][1] = i
                     IN Row(data[k][2], data[k][3])
                ELSE t.rows[i]]]

\* insert, lines 155-167: executemany (psycopg3, row by row) or execute_values
\* (psycopg2, one statement); the primary key rejects a duplicate id
insert_block(t, data, version) ==
    IF Len(data) = 0 THEN Outcome(NoExc, t, NoneValue, 0)
    ELSE IF ~t.exists THEN Outcome("UndefinedTable", t, NoneValue, 1)
    ELSE LET k == FirstConflict(t.rows, data)
         IN IF k = 0
            THEN Outcome(NoExc, WithRows(t, data, Len(data)), NoneValue,
                         IF version = 3 THEN Len(data) ELSE 1)
            ELSE Outcome("UniqueViolation",
                         IF version = 3 THEN WithRows(t, data, k - 1) ELSE t,
                         NoneValue,
                         IF version = 3 THEN k ELSE 1)

\* search / list, lines 188-196 and 332-340: the filter clause
Matching(t, filters) ==
    {i \in DOMAIN t.rows :
        (filters \notin {None, EmptyFilter}) => PayloadType(t.rows[i].payload) = filters}

\* sequences of n distinct elements of S
Orderings(S, n) == {s \in [1..n -> S] : \A i, j \in 1..n : s[i] = s[j] => i = j}

\* vector <=> query: 0 for the same direction, larger otherwise
Distance(v, q) == IF v = q THEN 0 ELSE 1

\* search, lines 198-211: ORDER BY distance LIMIT limit
search_block(t, q, filters, limit) ==
    IF ~t.exists THEN {Outcome("UndefinedTable", t, NoneValue, 1)}
    ELSE LET M == Matching(t, filters)
             d(i) == Distance(t.rows[i].vector, q)
         IN {Outcome(NoExc, t,
                     PyList([k \in DOMAIN s |-> OutputData(s[k], d(s[k]), jsonb_load(t.rows[s[k]].payload))]),
                     1) :
                s \in {s \in Orderings(M, Min(limit, Cardinality(M))) :
                          /\ \A i, j \in DOMAIN s : i < j => d(s[i]) <= d(s[j])
                          /\ \A i \in M \ Range(s) : \A k \in DOMAIN s : d(s[k]) <= d(i)}}

\* list, lines 342-352: LIMIT limit, no ordering; the result is wrapped in a list
list_block(t, filters, limit) ==
    IF ~t.exists THEN {Outcome("UndefinedTable", t, NoneValue, 1)}
    ELSE LET M == Matching(t, filters)
         IN {Outcome(NoExc, t,
                     PyList(<<PyList([k \in DOMAIN s |-> OutputData(s[k], None, jsonb_load(t.rows[s[k]].payload))])>>),
                     1) :
                s \in Orderings(M, Min(limit, Cardinality(M)))}

\* delete, lines 220-221
delete_block(t, vector_id) ==
    IF ~t.exists THEN Outcome("UndefinedTable", t, NoneValue, 1)
    ELSE Outcome(NoExc,
                 [t EXCEPT !.rows = [i \in DOMAIN t.rows \ {vector_id} |-> t.rows[i]]],
                 NoneValue, 1)

\* faulty variant: a vector UPDATE is issued whether or not a vector was given
UpdatesVectorAlways(vector) == TRUE
\* faulty variant: "if payload is not None" in place of "if payload"
UpdatesPayloadNotNone(payload) == payload # None

\* update, line 238: "if vector:"
UpdatesVector(vector) == Truthy(vector)
\* update, line 243: "if payload:"
UpdatesPayload(payload) == Truthy(payload)

\* UPDATE ... SET col = value WHERE id = vector_id
SetVector(t, vector_id, vector) ==
    IF vector_id \in DOMAIN t.rows
    THEN [t EXCEPT !.rows[vector_id].vector = vector] ELSE t
SetPayload(t, vector_id, payload) ==
    IF vector_id \in DOMAIN t.rows
    THEN [t EXCEPT !.rows[vector_id].payload = json_dumps(payload)] ELSE t

\* update, lines 237-256
update_block(t, vector_id, vector, payload) ==
    LET nv == IF UpdatesVector(vector) THEN 1 ELSE 0
        np == IF UpdatesPayload(payload) THEN 1 ELSE 0
        t1 == IF UpdatesVector(vector) THEN SetVector(t, vector_id, vector) ELSE t
        t2 == IF UpdatesPayload(payload) THEN SetPayload(t1, vector_id, payload) ELSE t1
    IN IF nv + np = 0 THEN Outcome(NoExc, t, NoneValue, 0)
       ELSE IF ~t.exists THEN Outcome("UndefinedTable", t, NoneValue, 1)
       ELSE Outcome(NoExc, t2, NoneValue, nv + np)

\* get, lines 269-277
get_block(t, vector_id) ==
    IF ~t.exists THEN Outcome("UndefinedTable", t, NoneValue, 1)
    ELSE IF vector_id \notin DOMAIN t.rows THEN Outcome(NoExc, t, NoneValue, 1)
    ELSE Outcome(NoExc, t, OutputData(vector_id, None, jsonb_load(t.rows[vector_id].payload)), 1)

\* list_cols, lines 286-288
list_cols_block(t) ==
    Outcome(NoExc, t, PyList(IF t.exists THEN <<collection_name>> ELSE <<>>), 1)

\* delete_col, lines 292-293: DROP TABLE IF EXISTS
delete_col_block(t) == Outcome(NoExc, NoTable, NoneValue, 1)

\* col_info, lines 302-315: the row count subquery names the table
col_info_block(t) ==
    IF ~t.exists THEN Outcome("UndefinedTable", t, NoneValue, 1)
    ELSE Outcome(NoExc, t,
                 [type |-> "dict", name |-> collection_name, count |-> Cardinality(DOMAIN t.rows)],
                 1)

\* reset, line 372: create_col takes no argument besides self, so the call
\* self.create_col(cur) raises TypeError before create_col's body runs
reset_block(t) == Outcome("TypeError", t, NoneValue, 0)


\* the block each scoped acquisition of an operation runs, with the outcomes it can have
BlockOutcomes(s, o, t) ==
    CASE s = "create_col" -> {create_col_block(t)}
      [] s = "insert"     -> {insert_block(t, InsertData(o.ids, o.vectors, o.payloads), PSYCOPG_VERSION)}
      [] s = "search"     -> search_block(t, o.vector, o.filters, o.limit)
      [] s = "delete"     -> {delete_block(t, o.vector_id)}
      [] s = "update"     -> {update_block(t, o.vector_id, o.vector, o.payload)}
      [] s = "get"        -> {get_block(t, o.vector_id)}
      [] s = "list_cols"  -> {list_cols_block(t)}
      [] s = "delete_col" -> {delete_col_block(t)}
      [] s = "col_info"   -> {col_info_block(t)}
      [] s = "list"       -> list_block(t, o.filters, o.limit)
      [] s = "reset"      -> {reset_block(t)}

\* a statement the block sends can also fail in the backend (connection lost, ...)
StatementFaults(outs) ==
    {Outcome("OperationalError", o.txn, NoneValue, 1) : o \in {x \in outs : x.n > 0 /\ x.exc = NoExc}}

\* the commit argument each block passes to _get_cursor
CommitArg(s) == s \in {"create_col", "insert", "delete", "update", "delete_col", "reset"}

\* ------------------------------------------------------------ _get_cursor
\* where control goes after conn.cursor(): line 102 is outside the try (psycopg2),
\* line 97 is inside "with self.pool.connection()" (psycopg3)
AfterCursor(version, ok) ==
    IF ok THEN "body" ELSE IF version = 3 THEN "rollback" ELSE "segend"

\* after the block: lines 105-109 (psycopg2), cursor.__exit__ (psycopg3)
AfterBody(version, commit, raised) ==
    IF version = 3 THEN "close"
    ELSE IF raised THEN "rollback"
    ELSE IF commit THEN "commit" ELSE "close"

\* after conn.commit(): a failure on line 106 is caught on line 107 (psycopg2);
\* in psycopg3 the commit is the connection's scope exit, followed by the pool return
AfterCommit(version, ok) ==
    IF version = 3 THEN "putconn" ELSE IF ok THEN "close" ELSE "rollback"

\* after conn.rollback(): the finally clause of line 110 (psycopg2), pool return (psycopg3)
AfterRollback(version) == IF version = 3 THEN "putconn" ELSE "close"

\* the exception in flight after conn.rollback(): line 108 raises in place of the
\* caught one (psycopg2); the connection's scope exit only logs it (psycopg3)
RollbackExc(version, ok, e) == IF ok \/ version = 3 THEN e ELSE "RollbackError"

\* faulty variant: the scope exit commits whether or not an exception is in flight
AfterCloseCommits(version, ok, e) ==
    IF version = 3 THEN "commit" ELSE (IF ok THEN "putconn" ELSE "segend")

\* after cur.close(): line 111 precedes putconn in the same finally clause (psycopg2);
\* the connection's scope exit commits or rolls back by the exception in flight,
\* whatever the commit argument (psycopg3, lines 96-98)
AfterClose(version, ok, e) ==
    IF version = 3
    THEN (IF ok /\ e = NoExc THEN "commit" ELSE "rollback")
    ELSE (IF ok THEN "putconn" ELSE "segend")

\* faulty variant: the operation keeps the connection it put back
ReleaseHeldKeeps(h) == h

\* putconn, line 112 / the pool's scope exit: the connection is the caller's no more
ReleaseHeld(h) == h - 1

\* ------------------------------------------------------------ operations
NoOp == [name |-> "none", vector_id |-> None, vector |-> None, payload |-> None,
         ids |-> <<>>, vectors |-> <<>>, payloads |-> <<>>, filters |-> None, limit |-> 0]
Call(name) == [NoOp EXCEPT !.name = name]

SeqsUpTo(S, n) == UNION {[1..k -> S] : k \in 0..n}

\* the adapter before line 84 of __init__: nothing borrowed, nothing called yet
Fresh ==
    /\ txn = db
    /\ pre = db
    /\ pc = "new"
    /\ op = NoOp
    /\ seg = "none"
    /\ exc = NoExc
    /\ blockExc = NoExc
    /\ ret = NoneValue
    /\ held = 0
    /\ used = 0
    /\ nstmts = 0
    /\ ncommits = 0
    /\ nrollbacks = 0

\* either driver, the constructor's default index flags (lines 52-53), a database
\* in which the collection's table may already exist
Init ==
    /\ PSYCOPG_VERSION \in Versions
    /\ use_diskann = FALSE
    /\ use_hnsw = TRUE
    /\ embedding_model_dims = DimLimit - 1
    /\ vectorscale = FALSE
    /\ db \in {NoTable, [exists |-> TRUE, indexes |-> {}, rows |-> EmptyRows]}
    /\ Fresh

\* every index configuration, with and without the vectorscale extension and
\* with any index already on an existing table
InitSchema ==
    /\ PSYCOPG_VERSION \in Versions
    /\ use_diskann \in BOOLEAN
    /\ use_hnsw \in BOOLEAN
    /\ embedding_model_dims \in Dims
    /\ vectorscale \in BOOLEAN
    /\ db \in {NoTable} \cup {[exists |-> TRUE, indexes |-> ix, rows |-> EmptyRows] : ix \in SUBSET IndexKinds}
    /\ Fresh

\* a public operation is entered: its first scoped block is about to acquire
Begin(o, s) ==
    /\ op' = o
    /\ seg' = s
    /\ pc' = "getconn"
    /\ pre' = db
    /\ UNCHANGED <<cfg, db, txn, exc, blockExc, ret, held, used, nstmts, ncommits, nrollbacks>>

\* __init__, lines 84-86 (the pool exists, lines 77-82)
Construct == pc = "new" /\ Begin(Call("__init__"), "list_cols")

create_col == pc = "idle" /\ Begin(Call("create_col"), "create_col")

insert ==
    /\ pc = "idle"
    /\ \E ids \in SeqsUpTo(Ids, MaxBatch) :
       \E vectors \in [DOMAIN ids -> Vectors], payloads \in [DOMAIN ids -> Payloads] :
          Begin([Call("insert") EXCEPT !.ids = ids, !.vectors = vectors, !.payloads = payloads],
                "insert")

search ==
    /\ pc = "idle"
    /\ \E q \in Vectors, limit \in Limits, filters \in {None, EmptyFilter} \cup FilterValues :
          Begin([Call("search") EXCEPT !.vector = q, !.limit = limit, !.filters = filters],
                "search")

delete ==
    /\ pc = "idle"
    /\ \E id \in Ids : Begin([Call("delete") EXCEPT !.vector_id = id], "delete")

update ==
    /\ pc = "idle"
    /\ \E id \in Ids, vector \in Vectors \cup {None, EmptyVector},
          payload \in Payloads \cup {None, EmptyPayload} :
          Begin([Call("update") EXCEPT !.vector_id = id, !.vector = vector, !.payload = payload],
                "update")

get ==
    /\ pc = "idle"
    /\ \E id \in Ids : Begin([Call("get") EXCEPT !.vector_id = id], "get")

list_cols == pc = "idle" /\ Begin(Call("list_cols"), "list_cols")

delete_col == pc = "idle" /\ Begin(Call("delete_col"), "delete_col")

col_info == pc = "idle" /\ Begin(Call("col_info"), "col_info")

list ==
    /\ pc = "idle"
    /\ \E limit \in Limits, filters \in {None, EmptyFilter} \cup FilterValues :
          Begin([Call("list") EXCEPT !.limit = limit, !.filters = filters], "list")

\* reset, lines 369-370: delete_col() comes first
reset == pc = "idle" /\ Begin(Call("reset"), "delete_col")

\* pool.getconn(), line 101 / pool.connection(), line 96
GetConn ==
    /\ pc = "getconn"
    /\ IF used < MaxConn
       THEN /\ used' = used + 1
            /\ held' = held + 1
            /\ txn' = db
            /\ pc' = "cursor"
            /\ exc' = exc
       ELSE /\ exc' = "PoolError"
            /\ pc' = "segend"
            /\ UNCHANGED <<used, held, txn>>
    /\ blockExc' = NoExc
    /\ UNCHANGED <<cfg, db, op, seg, ret, nstmts, ncommits, nrollbacks, pre>>

\* conn.cursor(), line 102 / line 97
Cursor ==
    /\ pc = "cursor"
    /\ \E ok \in BOOLEAN :
          /\ pc' = AfterCursor(PSYCOPG_VERSION, ok)
          /\ exc' = IF ok THEN exc ELSE "CursorError"
    /\ UNCHANGED <<cfg, db, txn, op, seg, blockExc, ret, held, used, nstmts, ncommits, nrollbacks, pre>>

\* the block under "with self._get_cursor(...) as cur", line 104 / line 98
Body ==
    /\ pc = "body"
    /\ LET outs == BlockOutcomes(seg, op, txn)
       IN \E o \in outs \cup StatementFaults(outs) :
             /\ txn' = o.txn
             /\ exc' = o.exc
             /\ blockExc' = o.exc
             /\ ret' = o.ret
             /\ nstmts' = nstmts + o.n
             /\ pc' = AfterBody(PSYCOPG_VERSION, CommitArg(seg), o.exc # NoExc)
    /\ UNCHANGED <<cfg, db, op, seg, held, used, ncommits, nrollbacks, pre>>

\* conn.commit(), line 106 / the connection's scope exit without an exception
Commit ==
    /\ pc = "commit"
    /\ ncommits' = ncommits + 1
    /\ \E ok \in BOOLEAN :
          /\ db' = IF ok THEN txn ELSE db
          /\ exc' = IF ok THEN exc ELSE "CommitError"
          /\ pc' = AfterCommit(PSYCOPG_VERSION, ok)
    /\ UNCHANGED <<cfg, txn, op, seg, blockExc, ret, held, used, nstmts, nrollbacks, pre>>

\* conn.rollback(), line 108 / the connection's scope exit with an exception
Rollback ==
    /\ pc = "rollback"
    /\ nrollbacks' = nrollbacks + 1
    /\ \E ok \in BOOLEAN :
          /\ txn' = IF ok THEN db ELSE txn
          /\ exc' = RollbackExc(PSYCOPG_VERSION, ok, exc)
          /\ pc' = AfterRollback(PSYCOPG_VERSION)
    /\ UNCHANGED <<cfg, db, op, seg, blockExc, ret, held, used, nstmts, ncommits, pre>>

\* cur.close(), line 111 / the cursor's scope exit
Close ==
    /\ pc = "close"
    /\ \E ok \in BOOLEAN :
          /\ exc' = IF ok THEN exc ELSE "CloseError"
          /\ pc' = AfterClose(PSYCOPG_VERSION, ok, exc)
    /\ UNCHANGED <<cfg, db, txn, op, seg, blockExc, ret, held, used, nstmts, ncommits, nrollbacks, pre>>

\* pool.putconn(conn), line 112 / the pool's scope exit: the pool rolls back
\* whatever the connection left uncommitted
PutConn ==
    /\ pc = "putconn"
    /\ used' = used - 1
    /\ held' = ReleaseHeld(held)
    /\ txn' = db
    /\ pc' = "segend"
    /\ UNCHANGED <<cfg, db, op, seg, exc, blockExc, ret, nstmts, ncommits, nrollbacks, pre>>

\* control is back in the operation after its scoped block: an exception
\* propagates to the caller; __init__ (lines 85-86) and reset (lines 371-372) go on
SegEnd ==
    /\ pc = "segend"
    /\ IF exc # NoExc
       THEN /\ pc' = "done"
            /\ ret' = NoneValue
            /\ seg' = seg
       ELSE IF op.name = "__init__" /\ seg = "list_cols"
       THEN IF collection_name \notin Range(ret.items)
            THEN /\ pc' = "getconn"
                 /\ seg' = "create_col"
                 /\ ret' = NoneValue
            ELSE /\ pc' = "done"
                 /\ seg' = seg
                 /\ ret' = NoneValue
       ELSE IF op.name = "reset" /\ seg = "delete_col"
       THEN /\ pc' = "getconn"
            /\ seg' = "reset"
            /\ ret' = NoneValue
       ELSE /\ pc' = "done"
            /\ seg' = seg
            /\ ret' = ret
    /\ UNCHANGED <<cfg, db, txn, op, exc, blockExc, held, used, nstmts, ncommits, nrollbacks, pre>>

\* the caller has the result (or the exception) and may call again; an adapter
\* whose constructor raised does not exist
Return ==
    /\ pc = "done"
    /\ pc' = IF op.name = "__init__" /\ exc # NoExc THEN "dead" ELSE "idle"
    /\ op' = NoOp
    /\ seg' = "none"
    /\ exc' = NoExc
    /\ blockExc' = NoExc
    /\ ret' = NoneValue
    /\ held' = 0
    /\ txn' = db
    /\ pre' = db
    /\ nstmts' = 0
    /\ ncommits' = 0
    /\ nrollbacks' = 0
    /\ UNCHANGED <<cfg, db, used>>

Next ==
    \/ Construct
    \/ create_col
    \/ insert
    \/ search
    \/ delete
    \/ update
    \/ get
    \/ list_cols
    \/ delete_col
    \/ col_info
    \/ list
    \/ reset
    \/ GetConn
    \/ Cursor
    \/ Body
    \/ Commit
    \/ Rollback
    \/ Close
    \/ PutConn
    \/ SegEnd
    \/ Return

Spec == Init /\ [][Next]_vars

\* the schema operations alone, over every configuration
NextSchema ==
    \/ Construct
    \/ create_col
    \/ list_cols
    \/ delete_col
    \/ col_info
    \/ reset
    \/ GetConn
    \/ Cursor
    \/ Body
    \/ Commit
    \/ Rollback
    \/ Close
    \/ PutConn
    \/ SegEnd
    \/ Return

SpecSchema == InitSchema /\ [][NextSchema]_vars


\* ------------------------------------------------------------ claims
DriverFaults == {"PoolError", "CursorError", "CommitError", "RollbackError", "CloseError",
                 "OperationalError"}
ReadOnlyOps == {"search", "get", "list", "list_cols", "col_info"}
Finished == pc = "done"

\* C1: when control is back with the caller, on every exit path of every
\* operation, no connection is out of the pool.
AllConnectionsReturned == pc \in {"done", "idle", "dead"} => used = 0

\* C2: a commit is issued at the end of a scoped block only if the block asked
\* for commit=True; the read-only operations never cause a commit.
CommitOnlyWhenRequested ==
    /\ ncommits > 0 => CommitArg(seg)
    /\ op.name \in ReadOnlyOps => ncommits = 0

\* C3: when the block raised E, a rollback was issued and the caller observes
\* exactly E.
BlockErrorReraisedUnchanged ==
    (Finished /\ blockExc # NoExc) => (exc = blockExc /\ nrollbacks >= 1)

\* C4: insert is all-or-nothing: when a row of the batch cannot be written the
\* call raises and the stored records are those from before the call; when the
\* call completes, every row of the batch is stored and committed and no other
\* record changed.
InsertAllOrNothing ==
    (Finished /\ op.name = "insert") =>
        LET data == InsertData(op.ids, op.vectors, op.payloads)
            rowFails == Len(data) > 0 /\ (~pre.exists \/ FirstConflict(pre.rows, data) # 0)
        IN /\ (rowFails \/ blockExc # NoExc) => (exc # NoExc /\ db = pre)
           /\ ~rowFails => exc \notin {"UniqueViolation", "UndefinedTable"}
           /\ exc = NoExc =>
                 /\ \A k \in DOMAIN data :
                       /\ data[k][1] \in DOMAIN db.rows
                       /\ db.rows[data[k][1]] = Row(data[k][2], json_dumps(op.payloads[k]))
                 /\ \A i \in DOMAIN pre.rows : i \in DOMAIN db.rows /\ db.rows[i] = pre.rows[i]
                 /\ DOMAIN db.rows = DOMAIN pre.rows \cup Range(op.ids)
                 /\ (Len(data) > 0 => ncommits = 1)

\* C4 witness: a batch whose first row was written and whose second row hit a
\* stored id, on the driver that writes row by row.
InsertAllOrNothingWitness ==
    /\ Finished
    /\ op.name = "insert"
    /\ PSYCOPG_VERSION = 3
    /\ blockExc = "UniqueViolation"
    /\ Len(op.ids) = 2
    /\ op.ids[1] \notin DOMAIN pre.rows
    /\ op.ids[2] \in DOMAIN pre.rows
    /\ nstmts = 2

\* C5: reset() on an existing collection completes without error and leaves the
\* collection existing, empty, with the index of the configured strategy.
ResetRecreates ==
    (Finished /\ op.name = "reset" /\ pre.exists /\ exc \notin DriverFaults) =>
        /\ exc = NoExc
        /\ db.exists
        /\ db.rows = EmptyRows
        /\ db.indexes = SelectedIndex(use_diskann, use_hnsw, embedding_model_dims, vectorscale)

\* C6: creating the collection creates a DiskANN index exactly when diskann is
\* requested, the dimensionality is below 2000 and the extension is installed;
\* a diskann request that cannot be honoured creates an HNSW index exactly when
\* hnsw is enabled.
IndexFallback ==
    (Finished /\ seg = "create_col" /\ exc = NoExc /\ ~pre.exists) =>
        LET diskannOk == use_diskann /\ embedding_model_dims < 2000 /\ vectorscale
        IN /\ ("diskann" \in db.indexes) <=> diskannOk
           /\ (use_diskann /\ ~diskannOk) => (("hnsw" \in db.indexes) <=> use_hnsw)

\* C7: update changes vector and payload independently: with vector=None only
\* the payload of the record changes, with payload=None only its vector, no other
\* record changes, and with both None no statement is issued and nothing changes.
UpdateIndependent ==
    (Finished /\ op.name = "update") =>
        LET id == op.vector_id
        IN /\ db.exists = pre.exists
           /\ db.indexes = pre.indexes
           /\ DOMAIN db.rows = DOMAIN pre.rows
           /\ \A i \in DOMAIN pre.rows : i # id => db.rows[i] = pre.rows[i]
           /\ op.vector = None =>
                 \A i \in DOMAIN pre.rows : db.rows[i].vector = pre.rows[i].vector
           /\ op.payload = None =>
                 \A i \in DOMAIN pre.rows : db.rows[i].payload = pre.rows[i].payload
           /\ (exc = NoExc /\ id \in DOMAIN pre.rows /\ op.payload \in Payloads) =>
                 jsonb_load(db.rows[id].payload) = op.payload
           /\ (exc = NoExc /\ id \in DOMAIN pre.rows /\ op.vector \in Vectors) =>
                 db.rows[id].vector = op.vector
           /\ (op.vector = None /\ op.payload = None) => (nstmts = 0 /\ db = pre)

\* C7 witness: a completed update(id, vector=None, payload=P) that changed the
\* payload of a stored record.
UpdateIndependentWitness ==
    /\ Finished
    /\ op.name = "update"
    /\ exc = NoExc
    /\ op.vector = None
    /\ op.payload \in Payloads
    /\ op.vector_id \in DOMAIN pre.rows
    /\ jsonb_load(pre.rows[op.vector_id].payload) # op.payload
    /\ jsonb_load(db.rows[op.vector_id].payload) = op.payload

\* C8: list(filters=None, limit=L) returns the stored records themselves, one
\* result per record: min(L, number of stored records) results, each with the id
\* and the payload of a stored record.
ListReturnsRecords ==
    (Finished /\ op.name = "list" /\ exc = NoExc /\ op.filters = None) =>
        /\ ret.type = "list"
        /\ Len(ret.items) = Min(op.limit, Cardinality(DOMAIN pre.rows))
        /\ \A k \in DOMAIN ret.items :
              /\ ret.items[k].type = "OutputData"
              /\ ret.items[k].id \in DOMAIN pre.rows
              /\ ret.items[k].payload = jsonb_load(pre.rows[ret.items[k].id].payload)

\* C9: at every point of every operation the caller holds at most one borrowed
\* connection, and it holds none whenever it asks the pool for one.
AtMostOneHeld ==
    /\ held <= 1
    /\ pc = "getconn" => held = 0

\* C9 witness: reset inside its own scoped block, after delete_col's block has
\* put its connection back.
AtMostOneHeldWitness ==
    /\ op.name = "reset"
    /\ seg = "reset"
    /\ pc = "body"
    /\ held = 1

\* C10: update treats an empty vector or payload like an absent one: a statement
\* is issued for an argument only if it is non-empty, so with both arguments
\* empty or absent no statement is issued and the stored records are unchanged,
\* while the completed call has still committed and put its connection back.
UpdateEmptyIsAbsent ==
    (Finished /\ op.name = "update") =>
        LET nv == IF op.vector \in Vectors THEN 1 ELSE 0
            np == IF op.payload \in Payloads THEN 1 ELSE 0
        IN /\ nstmts <= nv + np
           /\ exc = NoExc => nstmts = nv + np
           /\ (op.vector \in {None, EmptyVector} /\ op.payload \in {None, EmptyPayload}) =>
                 /\ nstmts = 0
                 /\ db = pre
                 /\ exc = NoExc => (ncommits = 1 /\ held = 0)
           /\ op.payload = EmptyPayload =>
                 \A i \in DOMAIN pre.rows :
                    i \in DOMAIN db.rows /\ db.rows[i].payload = pre.rows[i].payload
           /\ op.vector = EmptyVector =>
                 \A i \in DOMAIN pre.rows :
                    i \in DOMAIN db.rows /\ db.rows[i].vector = pre.rows[i].vector

\* C10 witness: a completed update(id, payload={}) on a stored record.
UpdateEmptyIsAbsentWitness ==
    /\ Finished
    /\ op.name = "update"
    /\ exc = NoExc
    /\ op.vector = None
    /\ op.payload = EmptyPayload
    /\ op.vector_id \in DOMAIN pre.rows
    /\ ncommits = 1
    /\ used = 0

====
